---- MODULE Spec2Model ----
(***************************************************************************)
(* Model of tensorflow_lattice/python/premade.py: the four premade models  *)
(* (CalibratedLatticeEnsemble, CalibratedLattice, CalibratedLinear,        *)
(* AggregateFunction), their constructors, get_config and from_config.     *)
(*                                                                         *)
(* Configuration objects live in a heap (a sequence; a reference is an     *)
(* index, 0 is Python's None) so that identity and mutation are visible.   *)
(* Optional values are sequences of length 0 (None) or 1.                  *)
(* premade_lib, configs and tf.keras are not part of premade.py; their     *)
(* calls are recorded in a call log and their results are symbolic         *)
(* tensors that name the layer, its arguments and its inputs.              *)
(***************************************************************************)
EXTENDS Integers, Sequences, FiniteSets, TLC

VARIABLES pc, cls, arg, heap, heap0, model, calls, err, saved, loadIn, warnings

vars == <<pc, cls, arg, heap, heap0, model, calls, err, saved, loadIn, warnings>>

(* ---------------------------- bounds ----------------------------------- *)
MaxFeatures == 2
MaxLattices == 2
MaxMiddle == 2

(* ---------------------------- values ----------------------------------- *)
None == <<>>
Some(x) == <<x>>

FeatureNames == {"f1", "f2", "f3", "f4"}
FeatureIndex(n) == CASE n = "f1" -> 1 [] n = "f2" -> 2 [] n = "f3" -> 3 [] OTHER -> 4

ConfigKinds == {"CalibratedLatticeEnsembleConfig", "CalibratedLatticeConfig",
                "CalibratedLinearConfig", "AggregateFunctionConfig"}

INPUT_TO_LATTICE == "INPUT_TO_LATTICE"
INPUT_TO_FINAL_CALIBRATION == "INPUT_TO_FINAL_CALIBRATION"
MODEL_OUTPUT == "MODEL_OUTPUT"
NoRange == ""

SeqMap(F(_), s) == [i \in 1..Len(s) |-> F(s[i])]

Range(s) == {s[i] : i \in DOMAIN s}

(* injective sequences over S of length lo..hi *)
InjSeqs(S, lo, hi) ==
  UNION {{s \in [1..n -> S] : \A i, j \in 1..n : i # j => s[i] # s[j]} : n \in lo..hi}

(* a symbolic tensor: which layer produced it, with which arguments *)
Tensor(layer, idx, name, range, flag, of) ==
  [layer |-> layer, idx |-> idx, name |-> name, range |-> range, flag |-> flag, of |-> of]

(* one entry of the call log: a premade_lib / tf.keras call *)
Call(fn, cfg, range, idx, fcs, input) ==
  [fn |-> fn, cfg |-> cfg, range |-> range, idx |-> idx, fcs |-> fcs, input |-> input]

Builders == {"build_input_layer", "build_calibration_layers", "build_lattice_layer",
             "build_linear_layer", "build_aggregation_layer",
             "build_output_calibration_layer"}

(* ------------------- premade_lib / configs / keras --------------------- *)
(* premade_lib.verify_config: raises ValueError on an incomplete or        *)
(* inconsistent configuration; whether a configuration is complete is a    *)
(* property of its content, carried as the field verifies.                 *)
verify_config(c) == c.verifies

FeatureNamesOf(fcs) == SeqMap(LAMBDA fc : fc.name, fcs)

(* feature_config_by_name of a config: the feature config with that name *)
feature_config_by_name(c, name) ==
  LET i == CHOOSE i \in DOMAIN c.feature_configs : c.feature_configs[i].name = name
  IN c.feature_configs[i]

(* premade_lib.build_input_layer: a dict name -> keras Input *)
build_input_layer(fcs, ragged) ==
  [n \in Range(FeatureNamesOf(fcs)) |-> Tensor("Input", 0, n, NoRange, ragged, <<>>)]

(* premade_lib.build_calibration_layers: one calibrated input per submodel *)
build_calibration_layers(input_layer, fcs, range, submodels, separate) ==
  [k \in DOMAIN submodels |->
     Tensor("Calibration", k - 1, "", range, separate,
            SeqMap(LAMBDA n : input_layer[n], submodels[k]))]

build_lattice_layer(lattice_input, fcs, range, submodel_index, inside) ==
  Tensor("Lattice", submodel_index, "", range, inside, <<lattice_input>>)

build_linear_layer(linear_input, fcs, weighted_average, submodel_index) ==
  Tensor("Linear", submodel_index, "", NoRange, weighted_average, <<linear_input>>)

build_aggregation_layer(input_layer, fcs, lattice_models, range, submodel_index) ==
  Tensor("Aggregation", submodel_index, "", range, FALSE,
         SeqMap(LAMBDA n : input_layer[n], FeatureNamesOf(fcs))
           \o SeqMap(LAMBDA m : m.outputs[1], lattice_models))

build_output_calibration_layer(calibration_input) ==
  Tensor("OutputCalibration", 0, "", NoRange, FALSE, <<calibration_input>>)

Average(outputs) == Tensor("Average", 0, "", NoRange, FALSE, outputs)

(* tf.keras.Model.__init__ with keyword arguments: needs inputs and outputs *)
KerasModelInit(c, ref, kwargs) ==
  [cls |-> c, model_config |-> ref,
   inputs |-> IF kwargs.inputs = None THEN <<>> ELSE kwargs.inputs[1],
   outputs |-> IF kwargs.outputs = None THEN <<>> ELSE kwargs.outputs[1],
   name |-> kwargs.name]

(* ---------------------- construction results --------------------------- *)
Fail(type, msg, log, h) ==
  [ok |-> FALSE, errType |-> type, errMsg |-> msg, calls |-> log, heap |-> h, model |-> None]

Done(m, log, h) ==
  [ok |-> TRUE, errType |-> "", errMsg |-> "", calls |-> log, heap |-> h, model |-> Some(m)]

HasIO_inputs_only(kwargs) == kwargs.inputs # None

(* 'inputs' in kwargs and 'outputs' in kwargs *)
HasIO(kwargs) == kwargs.inputs # None /\ kwargs.outputs # None

isinstance_any(c, kind) == c.kind \in ConfigKinds

(* isinstance(model_config, configs.<kind>) *)
isinstance(c, kind) == c.kind = kind

VerifyCall(ref) == Call("verify_config", ref, NoRange, -1, <<>>, <<>>)

(* what follows a successful premade_lib.verify_config(model_config) *)
Verified(ref, r) == [r EXCEPT !.calls = <<VerifyCall(ref)>> \o @]

ModelInputs_reversed(input_layer, fcs) ==
  [i \in 1..Len(fcs) |-> input_layer[fcs[Len(fcs) + 1 - i].name]]

(* inputs = [input_layer[feature_config.name] for feature_config in feature_configs] *)
ModelInputs(input_layer, fcs) == SeqMap(LAMBDA fc : input_layer[fc.name], fcs)

WithIO(kwargs, inputs, output) ==
  [kwargs EXCEPT !.inputs = Some(inputs), !.outputs = Some(<<output>>)]

OutputRange_swapped(mc) ==
  IF mc.output_calibration THEN MODEL_OUTPUT ELSE INPUT_TO_FINAL_CALIBRATION

(* INPUT_TO_FINAL_CALIBRATION if model_config.output_calibration else MODEL_OUTPUT *)
OutputRange(mc) ==
  IF mc.output_calibration THEN INPUT_TO_FINAL_CALIBRATION ELSE MODEL_OUTPUT

(* CalibratedLattice.__init__: the layers, built once the checks have passed *)
CalibratedLattice_build(h, ref, kwargs) ==
    LET mc == h[ref]
        fcs == mc.feature_configs
        names == FeatureNamesOf(fcs)
        input_layer == build_input_layer(fcs, FALSE)
        submodels_inputs ==
          build_calibration_layers(input_layer, fcs, INPUT_TO_LATTICE, <<names>>, FALSE)
        lattice_layer_output_range == OutputRange(mc)
        lattice_output ==
          build_lattice_layer(submodels_inputs[1], fcs, lattice_layer_output_range, 0, FALSE)
        model_output ==
          IF mc.output_calibration THEN build_output_calibration_layer(lattice_output)
          ELSE lattice_output
        log ==
          <<Call("build_input_layer", ref, NoRange, -1, names, <<>>),
            Call("build_calibration_layers", ref, INPUT_TO_LATTICE, -1, names, <<>>),
            Call("build_lattice_layer", ref, lattice_layer_output_range, 0, names,
                 <<submodels_inputs[1]>>)>>
          \o (IF mc.output_calibration
              THEN <<Call("build_output_calibration_layer", ref, NoRange, -1, <<>>,
                          <<lattice_output>>)>>
              ELSE <<>>)
        inputs == ModelInputs(input_layer, fcs)
    IN Done(KerasModelInit("CalibratedLattice", ref, WithIO(kwargs, inputs, model_output)),
            log, h)

(* CalibratedLattice.__init__: the checks before anything is built *)
CalibratedLattice_init(h, ref, kwargs) ==
  IF HasIO(kwargs) THEN Done(KerasModelInit("CalibratedLattice", ref, kwargs), <<>>, h)
  ELSE IF ref = 0 THEN Fail("ValueError", "Must provide a model_config.", <<>>, h)
  ELSE IF ~isinstance(h[ref], "CalibratedLatticeConfig")
    THEN Fail("ValueError", "Invalid config type", <<>>, h)
  ELSE IF ~verify_config(h[ref])
    THEN Fail("ValueError", "verify_config", <<VerifyCall(ref)>>, h)
  ELSE Verified(ref, CalibratedLattice_build(h, ref, kwargs))

(* CalibratedLinear.__init__: the layers, built once the checks have passed *)
CalibratedLinear_build(h, ref, kwargs) ==
    LET mc == h[ref]
        fcs == mc.feature_configs
        names == FeatureNamesOf(fcs)
        input_layer == build_input_layer(fcs, FALSE)
        calibration_layer_output_range == OutputRange(mc)
        submodels_inputs ==
          build_calibration_layers(input_layer, fcs, calibration_layer_output_range,
                                   <<names>>, FALSE)
        weighted_average ==
          mc.output_min # None \/ mc.output_max # None \/ mc.output_calibration
        linear_output == build_linear_layer(submodels_inputs[1], fcs, weighted_average, 0)
        model_output ==
          IF mc.output_calibration THEN build_output_calibration_layer(linear_output)
          ELSE linear_output
        log ==
          <<Call("build_input_layer", ref, NoRange, -1, names, <<>>),
            Call("build_calibration_layers", ref, calibration_layer_output_range, -1,
                 names, <<>>),
            Call("build_linear_layer", ref, NoRange, 0, names, <<submodels_inputs[1]>>)>>
          \o (IF mc.output_calibration
              THEN <<Call("build_output_calibration_layer", ref, NoRange, -1, <<>>,
                          <<linear_output>>)>>
              ELSE <<>>)
        inputs == ModelInputs(input_layer, fcs)
    IN Done(KerasModelInit("CalibratedLinear", ref, WithIO(kwargs, inputs, model_output)),
            log, h)

CalibratedLinear_init_late_verify(h, ref, kwargs) ==
  IF HasIO(kwargs) THEN Done(KerasModelInit("CalibratedLinear", ref, kwargs), <<>>, h)
  ELSE IF ref = 0 THEN Fail("ValueError", "Must provide a model_config.", <<>>, h)
  ELSE IF ~isinstance(h[ref], "CalibratedLinearConfig")
    THEN Fail("ValueError", "Invalid config type", <<>>, h)
  ELSE LET r == CalibratedLinear_build(h, ref, kwargs)
       IN IF ~verify_config(h[ref])
            THEN Fail("ValueError", "verify_config", r.calls \o <<VerifyCall(ref)>>, h)
          ELSE [r EXCEPT !.calls = @ \o <<VerifyCall(ref)>>]

(* CalibratedLinear.__init__: the checks before anything is built *)
CalibratedLinear_init(h, ref, kwargs) ==
  IF HasIO(kwargs) THEN Done(KerasModelInit("CalibratedLinear", ref, kwargs), <<>>, h)
  ELSE IF ref = 0 THEN Fail("ValueError", "Must provide a model_config.", <<>>, h)
  ELSE IF ~isinstance(h[ref], "CalibratedLinearConfig")
    THEN Fail("ValueError", "Invalid config type", <<>>, h)
  ELSE IF ~verify_config(h[ref])
    THEN Fail("ValueError", "verify_config", <<VerifyCall(ref)>>, h)
  ELSE Verified(ref, CalibratedLinear_build(h, ref, kwargs))

Min(a, b) == IF a <= b THEN a ELSE b

(* the loop of CalibratedLatticeEnsemble.__init__ over                     *)
(* enumerate(zip(model_config.lattices, submodels_inputs)): the k-th pass  *)
(* (k counted from 1 here, submodel_index is k - 1)                        *)
EnsembleLatticeFeatureNames(mc, k) ==
  FeatureNamesOf(SeqMap(LAMBDA n : feature_config_by_name(mc, n), mc.lattices[k]))

EnsembleLatticeOutput_one_based(mc, submodels_inputs, k) ==
  build_lattice_layer(submodels_inputs[k],
                      SeqMap(LAMBDA n : feature_config_by_name(mc, n), mc.lattices[k]),
                      OutputRange(mc), k, TRUE)

EnsembleLatticeOutput(mc, submodels_inputs, k) ==
  build_lattice_layer(submodels_inputs[k],
                      SeqMap(LAMBDA n : feature_config_by_name(mc, n), mc.lattices[k]),
                      OutputRange(mc), k - 1, TRUE)

EnsembleLatticeCall(mc, ref, submodels_inputs, k) ==
  Call("build_lattice_layer", ref, OutputRange(mc), k - 1,
       EnsembleLatticeFeatureNames(mc, k), <<submodels_inputs[k]>>)

(* CalibratedLatticeEnsemble.__init__: the layers, built once the checks have passed *)
CalibratedLatticeEnsemble_build(h, ref, kwargs) ==
    LET mc == h[ref]
        fcs == mc.feature_configs
        names == FeatureNamesOf(fcs)
        input_layer == build_input_layer(fcs, FALSE)
        submodels_inputs ==
          build_calibration_layers(input_layer, fcs, INPUT_TO_LATTICE, mc.lattices,
                                   mc.separate_calibrators)
        n == Min(Len(mc.lattices), Len(submodels_inputs))
        lattice_outputs == [k \in 1..n |-> EnsembleLatticeOutput(mc, submodels_inputs, k)]
        lattice_calls == [k \in 1..n |-> EnsembleLatticeCall(mc, ref, submodels_inputs, k)]
        log1 ==
          <<Call("build_input_layer", ref, NoRange, -1, names, <<>>),
            Call("build_calibration_layers", ref, INPUT_TO_LATTICE, -1, names, <<>>)>>
          \o lattice_calls
    IN IF Len(lattice_outputs) = 0 THEN Fail("IndexError", "list index out of range", log1, h)
       ELSE
         LET averaged_lattice_output ==
               IF Len(lattice_outputs) > 1 THEN Average(lattice_outputs)
               ELSE lattice_outputs[1]
             log2 ==
               log1 \o (IF Len(lattice_outputs) > 1
                        THEN <<Call("Average", ref, NoRange, -1, <<>>, lattice_outputs)>>
                        ELSE <<>>)
             model_output ==
               IF mc.output_calibration
               THEN build_output_calibration_layer(averaged_lattice_output)
               ELSE averaged_lattice_output
             log ==
               log2 \o (IF mc.output_calibration
                        THEN <<Call("build_output_calibration_layer", ref, NoRange, -1, <<>>,
                                    <<averaged_lattice_output>>)>>
                        ELSE <<>>)
             inputs == ModelInputs(input_layer, fcs)
         IN Done(KerasModelInit("CalibratedLatticeEnsemble", ref,
                                WithIO(kwargs, inputs, model_output)), log, h)

(* CalibratedLatticeEnsemble.__init__: the checks before anything is built *)
CalibratedLatticeEnsemble_init(h, ref, kwargs) ==
  IF HasIO(kwargs) THEN Done(KerasModelInit("CalibratedLatticeEnsemble", ref, kwargs), <<>>, h)
  ELSE IF ref = 0 THEN Fail("ValueError", "Must provide a model_config.", <<>>, h)
  ELSE IF ~isinstance(h[ref], "CalibratedLatticeEnsembleConfig")
    THEN Fail("ValueError", "Invalid config type", <<>>, h)
  ELSE IF ~verify_config(h[ref])
    THEN Fail("ValueError", "verify_config", <<VerifyCall(ref)>>, h)
  ELSE Verified(ref, CalibratedLatticeEnsemble_build(h, ref, kwargs))

DerivedLatticeConfig_no_regularizers(mc) ==
  [kind |-> "CalibratedLatticeConfig",
   feature_configs |-> mc.feature_configs,
   regularizer_configs |-> <<>>,
   output_min |-> Some(-1),
   output_max |-> Some(1),
   output_initialization |-> <<-1, 1>>,
   output_calibration |-> FALSE,
   lattices |-> <<>>,
   separate_calibrators |-> FALSE,
   middle_dimension |-> 0,
   verifies |-> mc.lattice_verifies,
   lattice_verifies |-> mc.lattice_verifies]

(* configs.CalibratedLatticeConfig(feature_configs=..., regularizer_configs=..., *)
(* output_min=-1.0, output_max=1.0, output_initialization=[-1.0, 1.0]) as built  *)
(* by AggregateFunction.__init__; every other field keeps its default            *)
DerivedLatticeConfig(mc) ==
  [kind |-> "CalibratedLatticeConfig",
   feature_configs |-> mc.feature_configs,
   regularizer_configs |-> mc.regularizer_configs,
   output_min |-> Some(-1),
   output_max |-> Some(1),
   output_initialization |-> <<-1, 1>>,
   output_calibration |-> FALSE,
   lattices |-> <<>>,
   separate_calibrators |-> FALSE,
   middle_dimension |-> 0,
   verifies |-> mc.lattice_verifies,
   lattice_verifies |-> mc.lattice_verifies]

NewDerivedConfig_in_place(h, ref, mc) == [h EXCEPT ![ref] = DerivedLatticeConfig(mc)]

(* the derived configuration is a new object, next to the supplied one *)
NewDerivedConfig(h, ref, mc) == Append(h, DerivedLatticeConfig(mc))

NoKwargs == [inputs |-> None, outputs |-> None, name |-> None]

RECURSIVE Repeat(_, _)
Repeat(s, n) == IF n <= 0 THEN <<>> ELSE s \o Repeat(s, n - 1)

(* AggregateFunction.__init__: the layers, built once the checks have passed *)
AggregateFunction_build(h, ref, kwargs) ==
    LET mc == h[ref]
        fcs == mc.feature_configs
        names == FeatureNamesOf(fcs)
        input_layer == build_input_layer(fcs, TRUE)
        h2 == NewDerivedConfig(h, ref, mc)
        calibrated_lattice_config == Len(h2)
        inner == CalibratedLattice_init(h2, calibrated_lattice_config, NoKwargs)
        log1 ==
          <<Call("build_input_layer", ref, NoRange, -1, names, <<>>)>>
    IN IF mc.middle_dimension > 0 /\ ~inner.ok
         THEN Fail(inner.errType, inner.errMsg, log1 \o inner.calls, h2)
       ELSE
         LET calibrated_lattice_models ==
               [i \in 1..mc.middle_dimension |-> inner.model[1]]
             aggregation_layer_output_range == OutputRange(mc)
             aggregation_output ==
               build_aggregation_layer(input_layer, fcs, calibrated_lattice_models,
                                       aggregation_layer_output_range, 0)
             model_output ==
               IF mc.output_calibration
               THEN build_output_calibration_layer(aggregation_output)
               ELSE aggregation_output
             log ==
               log1 \o Repeat(inner.calls, mc.middle_dimension)
               \o <<Call("build_aggregation_layer", ref, aggregation_layer_output_range, 0,
                         names, <<>>)>>
               \o (IF mc.output_calibration
                   THEN <<Call("build_output_calibration_layer", ref, NoRange, -1, <<>>,
                               <<aggregation_output>>)>>
                   ELSE <<>>)
             inputs == ModelInputs(input_layer, fcs)
         IN Done(KerasModelInit("AggregateFunction", ref,
                                [inputs |-> Some(inputs), outputs |-> Some(<<model_output>>),
                                 name |-> None]),
                 log, h2)

(* AggregateFunction.__init__: the checks before anything is built *)
AggregateFunction_init(h, ref, kwargs) ==
  IF HasIO(kwargs) THEN Done(KerasModelInit("AggregateFunction", ref, kwargs), <<>>, h)
  ELSE IF ref = 0 THEN Fail("ValueError", "Must provide a model_config.", <<>>, h)
  ELSE IF ~isinstance(h[ref], "AggregateFunctionConfig")
    THEN Fail("ValueError", "Invalid config type", <<>>, h)
  ELSE IF ~verify_config(h[ref])
    THEN Fail("ValueError", "verify_config", <<VerifyCall(ref)>>, h)
  ELSE Verified(ref, AggregateFunction_build(h, ref, kwargs))

(* ------------------------ save and load -------------------------------- *)
ClassInit(c, h, ref, kwargs) ==
  CASE c = "CalibratedLatticeEnsemble" -> CalibratedLatticeEnsemble_init(h, ref, kwargs)
    [] c = "CalibratedLattice" -> CalibratedLattice_init(h, ref, kwargs)
    [] c = "CalibratedLinear" -> CalibratedLinear_init(h, ref, kwargs)
    [] OTHER -> AggregateFunction_init(h, ref, kwargs)

ConfigFields == {"feature_configs", "regularizer_configs", "output_min", "output_max",
                 "output_initialization", "output_calibration", "lattices",
                 "separate_calibrators", "middle_dimension", "verifies",
                 "lattice_verifies"}

(* tf.keras.utils.serialize_keras_object: None for None, otherwise the     *)
(* class name and the object's own get_config()                            *)
serialize_keras_object(h, ref) ==
  IF ref = 0 THEN None
  ELSE LET c == h[ref]
       IN Some([class_name |-> c.kind,
                config |-> [feature_configs |-> c.feature_configs,
                            regularizer_configs |-> c.regularizer_configs,
                            output_min |-> c.output_min,
                            output_max |-> c.output_max,
                            output_initialization |-> c.output_initialization,
                            output_calibration |-> c.output_calibration,
                            lattices |-> c.lattices,
                            separate_calibrators |-> c.separate_calibrators,
                            middle_dimension |-> c.middle_dimension,
                            verifies |-> c.verifies,
                            lattice_verifies |-> c.lattice_verifies]])

(* tf.keras.Model.get_config of a functional model: the graph *)
KerasGetConfig(m) == [inputs |-> m.inputs, outputs |-> m.outputs, name |-> m.name]

(* get_config of the four classes: the same text in each *)
CalibratedLatticeEnsemble_get_config(h, m) ==
  [graph |-> KerasGetConfig(m), model_config |-> serialize_keras_object(h, m.model_config)]

CalibratedLattice_get_config(h, m) ==
  [graph |-> KerasGetConfig(m), model_config |-> serialize_keras_object(h, m.model_config)]

CalibratedLinear_get_config(h, m) ==
  [graph |-> KerasGetConfig(m), model_config |-> serialize_keras_object(h, m.model_config)]

AggregateFunction_get_config(h, m) ==
  [graph |-> KerasGetConfig(m), model_config |-> serialize_keras_object(h, m.model_config)]

ClassGetConfig(h, m) ==
  CASE m.cls = "CalibratedLatticeEnsemble" -> CalibratedLatticeEnsemble_get_config(h, m)
    [] m.cls = "CalibratedLattice" -> CalibratedLattice_get_config(h, m)
    [] m.cls = "CalibratedLinear" -> CalibratedLinear_get_config(h, m)
    [] OTHER -> AggregateFunction_get_config(h, m)

TflObjectNames ==
  {"AggregateFunction", "CalibratedLatticeEnsemble", "CalibratedLattice",
   "CalibratedLinear", "CategoricalCalibration", "CategoricalCalibrationConstraints",
   "FeatureConfig", "RegularizerConfig", "TrustConfig", "DominanceConfig",
   "CalibratedLatticeEnsembleConfig", "CalibratedLatticeConfig",
   "CalibratedLinearConfig", "AggregateFunctionConfig", "Aggregation", "Lattice",
   "LatticeConstraints", "Linear", "LinearConstraints", "ParallelCombination",
   "PWLCalibration", "PWLCalibrationConstraints", "NaiveBoundsConstraints"}

_extend_custom_objects_no_configs(custom_objects) ==
  LET tfl_custom_objects == [n \in TflObjectNames \ ConfigKinds |-> n]
  IN IF custom_objects # None THEN custom_objects[1] @@ tfl_custom_objects
     ELSE tfl_custom_objects

(* _extend_custom_objects: the TFL objects, updated with the caller's *)
_extend_custom_objects(custom_objects) ==
  LET tfl_custom_objects == [n \in TflObjectNames |-> n]
  IN IF custom_objects # None THEN custom_objects[1] @@ tfl_custom_objects
     ELSE tfl_custom_objects

(* tf.keras.utils.deserialize_keras_object: None for None; ValueError for  *)
(* a class name that is not registered; otherwise cls.from_config(config), *)
(* that is cls called with config's keys as keyword arguments: a TypeError *)
(* when config has a key that is not a constructor argument                *)
deserialize_keras_object(identifier, custom_objects) ==
  IF identifier = None THEN [raised |-> "", obj |-> None]
  ELSE LET id == identifier[1]
       IN IF id.class_name \notin DOMAIN custom_objects
            THEN [raised |-> "ValueError", obj |-> None]
          ELSE IF DOMAIN id.config # ConfigFields
            THEN [raised |-> "TypeError", obj |-> None]
          ELSE [raised |-> "",
                obj |-> Some([kind |-> custom_objects[id.class_name],
                              feature_configs |-> id.config.feature_configs,
                              regularizer_configs |-> id.config.regularizer_configs,
                              output_min |-> id.config.output_min,
                              output_max |-> id.config.output_max,
                              output_initialization |-> id.config.output_initialization,
                              output_calibration |-> id.config.output_calibration,
                              lattices |-> id.config.lattices,
                              separate_calibrators |-> id.config.separate_calibrators,
                              middle_dimension |-> id.config.middle_dimension,
                              verifies |-> id.config.verifies,
                              lattice_verifies |-> id.config.lattice_verifies])]

(* tf.keras.Model.from_config of a functional model: rebuilds the graph    *)
(* and calls cls(inputs=..., outputs=..., name=...)                        *)
KerasFromConfig(c, h, config) ==
  ClassInit(c, h, 0, [inputs |-> Some(config.graph.inputs),
                      outputs |-> Some(config.graph.outputs),
                      name |-> config.graph.name])

Loaded(m, h, w) ==
  [ok |-> TRUE, errType |-> "", heap |-> h, model |-> Some(m), warnings |-> w]

LoadFailed(type, h) ==
  [ok |-> FALSE, errType |-> type, heap |-> h, model |-> None, warnings |-> <<>>]

CouldNotLoad == "Could not load model_config. Constructing model without it"

LoadModelConfig_no_except(m, h, config, custom_objects, noneRaises) ==
  LET d == deserialize_keras_object(config.model_config, custom_objects)
      raised ==
        IF d.raised # "" THEN d.raised
        ELSE IF d.obj = None THEN noneRaises
        ELSE IF ~verify_config(d.obj[1]) THEN "ValueError"
        ELSE ""
  IN IF raised = ""
       THEN LET h2 == Append(h, d.obj[1])
            IN Loaded([m EXCEPT !.model_config = Len(h2)], h2, <<>>)
     ELSE LoadFailed(raised, h)

LoadModelConfig_assign_first(m, h, config, custom_objects, noneRaises) ==
  LET d == deserialize_keras_object(config.model_config, custom_objects)
      h2 == IF d.obj = None THEN h ELSE Append(h, d.obj[1])
      assigned == [m EXCEPT !.model_config = IF d.obj = None THEN 0 ELSE Len(h2)]
      raised ==
        IF d.raised # "" THEN d.raised
        ELSE IF d.obj = None THEN noneRaises
        ELSE IF ~verify_config(d.obj[1]) THEN "ValueError"
        ELSE ""
  IN IF raised = "" THEN Loaded(assigned, h2, <<>>)
     ELSE IF raised = "ValueError" THEN Loaded(assigned, h2, <<CouldNotLoad>>)
     ELSE LoadFailed(raised, h)

(* the try/except of from_config, the same text in the four classes;       *)
(* noneRaises is the exception verify_config raises when handed None       *)
LoadModelConfig(m, h, config, custom_objects, noneRaises) ==
  LET d == deserialize_keras_object(config.model_config, custom_objects)
      raised ==
        IF d.raised # "" THEN d.raised
        ELSE IF d.obj = None THEN noneRaises
        ELSE IF ~verify_config(d.obj[1]) THEN "ValueError"
        ELSE ""
  IN IF raised = ""
       THEN LET h2 == Append(h, d.obj[1])
            IN Loaded([m EXCEPT !.model_config = Len(h2)], h2, <<>>)
     ELSE IF raised = "ValueError" THEN Loaded(m, h, <<CouldNotLoad>>)
     ELSE LoadFailed(raised, h)

CalibratedLatticeEnsemble_from_config(h, config, custom_objects, noneRaises) ==
  LET co == _extend_custom_objects(custom_objects)
      r == KerasFromConfig("CalibratedLatticeEnsemble", h, config)
  IN LoadModelConfig(r.model[1], h, config, co, noneRaises)

CalibratedLattice_from_config(h, config, custom_objects, noneRaises) ==
  LET co == _extend_custom_objects(custom_objects)
      r == KerasFromConfig("CalibratedLattice", h, config)
  IN LoadModelConfig(r.model[1], h, config, co, noneRaises)

CalibratedLinear_from_config(h, config, custom_objects, noneRaises) ==
  LET co == _extend_custom_objects(custom_objects)
      r == KerasFromConfig("CalibratedLinear", h, config)
  IN LoadModelConfig(r.model[1], h, config, co, noneRaises)

AggregateFunction_from_config(h, config, custom_objects, noneRaises) ==
  LET co == _extend_custom_objects(custom_objects)
      r == KerasFromConfig("AggregateFunction", h, config)
  IN LoadModelConfig(r.model[1], h, config, co, noneRaises)

ClassFromConfig(c, h, config, custom_objects, noneRaises) ==
  CASE c = "CalibratedLatticeEnsemble" ->
         CalibratedLatticeEnsemble_from_config(h, config, custom_objects, noneRaises)
    [] c = "CalibratedLattice" ->
         CalibratedLattice_from_config(h, config, custom_objects, noneRaises)
    [] c = "CalibratedLinear" ->
         CalibratedLinear_from_config(h, config, custom_objects, noneRaises)
    [] OTHER -> AggregateFunction_from_config(h, config, custom_objects, noneRaises)

(* ---------------------------- inputs ----------------------------------- *)
MkConfig(kind, fcs, reg, omin, omax, outcal, lattices, sep, md, ver, lver) ==
  [kind |-> kind, feature_configs |-> fcs, regularizer_configs |-> reg,
   output_min |-> omin, output_max |-> omax, output_initialization |-> <<0, 1>>,
   output_calibration |-> outcal, lattices |-> lattices, separate_calibrators |-> sep,
   middle_dimension |-> md, verifies |-> ver, lattice_verifies |-> lver]

(* the first n feature names, n = 1..MaxFeatures, in every order *)
FeatureConfigSeqs ==
  UNION {{[i \in 1..n |-> [name |-> s[i]]] :
            s \in InjSeqs({m \in FeatureNames : FeatureIndex(m) <= n}, n, n)} :
         n \in 1..MaxFeatures}

(* lattices: up to MaxLattices entries, each one feature, or all features  *)
(* in the order of feature_configs or in the reverse order                 *)
LatticeLists(fcs) ==
  LET n == Len(fcs)
      entries == {<<fcs[i].name>> : i \in 1..n}
                   \cup {[i \in 1..n |-> fcs[i].name], [i \in 1..n |-> fcs[n + 1 - i].name]}
  IN UNION {[1..k -> entries] : k \in 0..MaxLattices}

LatticeConfigs ==
  {MkConfig("CalibratedLatticeConfig", fcs, <<>>, None, None, oc, <<>>, FALSE, 0, v, v) :
     fcs \in FeatureConfigSeqs, oc \in BOOLEAN, v \in BOOLEAN}

LinearConfigs ==
  {MkConfig("CalibratedLinearConfig", fcs, <<>>, b[1], b[2], oc, <<>>, FALSE, 0, v, v) :
     fcs \in FeatureConfigSeqs, oc \in BOOLEAN, v \in BOOLEAN,
     b \in {<<None, None>>, <<Some(0), None>>, <<None, Some(1)>>}}

AggregateConfigs ==
  {MkConfig("AggregateFunctionConfig", fcs, reg, None, None, oc, <<>>, FALSE, md, v[1], v[2]) :
     fcs \in FeatureConfigSeqs, oc \in BOOLEAN, v \in BOOLEAN \X BOOLEAN,
     reg \in {<<>>, <<"reg">>}, md \in 0..MaxMiddle}

EnsembleConfigs ==
  UNION {{MkConfig("CalibratedLatticeEnsembleConfig", fcs, <<>>, None, None, oc, ls, sep, 0, v, v) :
            oc \in BOOLEAN, v \in BOOLEAN, sep \in BOOLEAN, ls \in LatticeLists(fcs)} :
         fcs \in FeatureConfigSeqs}

Configs == LatticeConfigs \cup LinearConfigs \cup AggregateConfigs \cup EnsembleConfigs

ConfigArgs == {None} \cup {Some(c) : c \in Configs}

GivenInput == Tensor("Input", 0, "given", NoRange, FALSE, <<>>)
GivenOutput == Tensor("Given", 0, "", NoRange, FALSE, <<GivenInput>>)

KwargsSet ==
  [inputs : {None, Some(<<GivenInput>>)}, outputs : {None, Some(<<GivenOutput>>)},
   name : {None, Some("m")}]

(* constructor arguments: any configuration with keyword arguments that    *)
(* lack inputs or outputs or the name; with both inputs and outputs, where *)
(* the configuration is only stored, None or a CalibratedLatticeConfig     *)
ConstructArgs ==
  {a \in ConfigArgs \X KwargsSet :
     \/ (a[2].inputs = None \/ a[2].outputs = None)
          /\ (a[2].name = None \/ (a[2].inputs = None /\ a[2].outputs = None))
     \/ a[2].inputs # None /\ a[2].outputs # None
          /\ (a[1] = None \/ a[1][1].kind = "CalibratedLatticeConfig")}

(* the config dictionary handed to from_config: the saved one, or one      *)
(* whose model_config entry was removed or edited                          *)
Tamper(config, t) ==
  IF t = "asis" \/ config.model_config = None THEN config
  ELSE IF t = "drop" THEN [config EXCEPT !.model_config = None]
  ELSE LET p == config.model_config[1]
       IN IF t = "unknown_class"
            THEN [config EXCEPT !.model_config = Some([p EXCEPT !.class_name = "NoSuchConfig"])]
          ELSE IF t = "bad_fields"
            THEN [config EXCEPT !.model_config =
                    Some([p EXCEPT !.config =
                            [k \in ConfigFields \cup {"unexpected"} |->
                               IF k = "unexpected" THEN <<>> ELSE p.config[k]]])]
          ELSE [config EXCEPT !.model_config =
                  Some([p EXCEPT !.config = [p.config EXCEPT !.verifies = FALSE]])]

CustomObjectArgs ==
  {None, Some([n \in {"MyLayer"} |-> "MyLayer"]),
   Some([n \in {"CalibratedLinearConfig"} |-> "UserConfig"])}

LoadArgs ==
  {[tamper |-> "asis", custom_objects |-> co, noneRaises |-> "ValueError"] :
     co \in CustomObjectArgs}
  \cup {[tamper |-> "drop", custom_objects |-> None, noneRaises |-> e] :
          e \in {"ValueError", "AttributeError"}}
  \cup {[tamper |-> t, custom_objects |-> None, noneRaises |-> "ValueError"] :
          t \in {"unknown_class", "bad_fields", "unverified"}}

(* ------------------------- state machine ------------------------------- *)
NoErr == [type |-> "", msg |-> ""]
NoArg == [model_config |-> 0, kwargs |-> NoKwargs]
NoLoad == [config |-> None, tamper |-> "", custom_objects |-> None, noneRaises |-> ""]

Init ==
  /\ pc = "start"
  /\ cls = ""
  /\ arg = NoArg
  /\ heap = <<>>
  /\ heap0 = <<>>
  /\ model = None
  /\ calls = <<>>
  /\ err = NoErr
  /\ saved = None
  /\ loadIn = NoLoad
  /\ warnings = <<>>

Constructed(c, h, kwargs, r) ==
  /\ pc' = IF r.ok THEN "constructed" ELSE "failed"
  /\ cls' = c
  /\ arg' = [model_config |-> Len(h), kwargs |-> kwargs]
  /\ heap' = r.heap
  /\ heap0' = h
  /\ model' = r.model
  /\ calls' = r.calls
  /\ err' = [type |-> r.errType, msg |-> r.errMsg]
  /\ UNCHANGED <<saved, loadIn, warnings>>

ConstructEnsemble ==
  /\ pc = "start"
  /\ \E a \in ConstructArgs :
       \E r \in {CalibratedLatticeEnsemble_init(a[1], Len(a[1]), a[2])} :
         Constructed("CalibratedLatticeEnsemble", a[1], a[2], r)

ConstructLattice ==
  /\ pc = "start"
  /\ \E a \in ConstructArgs :
       \E r \in {CalibratedLattice_init(a[1], Len(a[1]), a[2])} :
         Constructed("CalibratedLattice", a[1], a[2], r)

ConstructLinear ==
  /\ pc = "start"
  /\ \E a \in ConstructArgs :
       \E r \in {CalibratedLinear_init(a[1], Len(a[1]), a[2])} :
         Constructed("CalibratedLinear", a[1], a[2], r)

ConstructAggregate ==
  /\ pc = "start"
  /\ \E a \in ConstructArgs :
       \E r \in {AggregateFunction_init(a[1], Len(a[1]), a[2])} :
         Constructed("AggregateFunction", a[1], a[2], r)

GetConfig ==
  /\ pc = "constructed"
  /\ saved' = Some(ClassGetConfig(heap, model[1]))
  /\ pc' = "saved"
  /\ UNCHANGED <<cls, arg, heap, heap0, model, calls, err, loadIn, warnings>>

FromConfig ==
  /\ pc = "saved"
  /\ \E a \in LoadArgs :
       /\ a.tamper \in {"asis", "drop"} \/ saved[1].model_config # None
       /\ \E config \in {Tamper(saved[1], a.tamper)} :
            \E r \in {ClassFromConfig(cls, heap, config, a.custom_objects, a.noneRaises)} :
              /\ pc' = IF r.ok THEN "loaded" ELSE "load_failed"
              /\ model' = r.model
              /\ heap' = r.heap
              /\ warnings' = r.warnings
              /\ err' = [type |-> r.errType, msg |-> ""]
              /\ loadIn' = [config |-> Some(config), tamper |-> a.tamper,
                            custom_objects |-> a.custom_objects,
                            noneRaises |-> a.noneRaises]
  /\ UNCHANGED <<cls, arg, heap0, calls, saved>>

Next ==
  \/ ConstructEnsemble
  \/ ConstructLattice
  \/ ConstructLinear
  \/ ConstructAggregate
  \/ GetConfig
  \/ FromConfig

Spec == Init /\ [][Next]_vars

(* ============================ properties =============================== *)
AfterConstruction == pc \in {"constructed", "failed"}
BothGiven == arg.kwargs.inputs # None /\ arg.kwargs.outputs # None
Supplied == heap0[1]
ExpectedKind ==
  CASE cls = "CalibratedLatticeEnsemble" -> "CalibratedLatticeEnsembleConfig"
    [] cls = "CalibratedLattice" -> "CalibratedLatticeConfig"
    [] cls = "CalibratedLinear" -> "CalibratedLinearConfig"
    [] OTHER -> "AggregateFunctionConfig"
BuilderCalls == {i \in DOMAIN calls : calls[i].fn \in Builders}

(* C1, as stated: every construction of one of the four classes with       *)
(* model_config None fails and produces no model.                          *)
C1_AsStated ==
  (AfterConstruction /\ arg.model_config = 0) => (pc = "failed" /\ model = None)

(* C1, amended: a construction with model_config None fails with           *)
(* ValueError 'Must provide a model_config.', calls nothing and produces   *)
(* no model, unless the keyword arguments hold both inputs and outputs.    *)
C1_NoConfigFails ==
  (AfterConstruction /\ arg.model_config = 0 /\ ~BothGiven)
    => /\ pc = "failed"
       /\ model = None
       /\ err = [type |-> "ValueError", msg |-> "Must provide a model_config."]
       /\ calls = <<>>

C1_Witness ==
  /\ pc = "failed"
  /\ arg.model_config = 0
  /\ arg.kwargs.inputs # None
  /\ arg.kwargs.outputs = None
  /\ err.msg = "Must provide a model_config."

(* C2, as stated: every construction with a configuration of another kind  *)
(* than the class expects fails and produces no model.                     *)
C2_AsStated ==
  (AfterConstruction /\ arg.model_config # 0 /\ Supplied.kind # ExpectedKind)
    => (pc = "failed" /\ model = None)

(* C2, amended: unless the keyword arguments hold both inputs and outputs, *)
(* a construction with a configuration of another kind than the class      *)
(* expects fails with ValueError 'Invalid config type' and produces no      *)
(* model; a configuration of the expected kind never gets that error.      *)
C2_WrongKindFails ==
  (AfterConstruction /\ arg.model_config # 0)
    => /\ (Supplied.kind # ExpectedKind /\ ~BothGiven)
            => /\ pc = "failed"
               /\ model = None
               /\ err = [type |-> "ValueError", msg |-> "Invalid config type"]
               /\ calls = <<>>
       /\ Supplied.kind = ExpectedKind => err.msg # "Invalid config type"

C2_Witness ==
  /\ pc = "failed"
  /\ arg.model_config # 0
  /\ Supplied.kind = "CalibratedLatticeConfig"
  /\ cls = "CalibratedLinear"
  /\ ~BothGiven
  /\ err.msg = "Invalid config type"

(* C3: in a construction from a configuration the kind is checked before   *)
(* verify_config runs; every builder call is preceded in the call log by   *)
(* a verify_config call on the same configuration, which that              *)
(* configuration passes; and when verify_config rejects the supplied       *)
(* configuration the construction fails, no builder was called and there   *)
(* is no model.                                                            *)
C3_VerifyBeforeBuild ==
  (AfterConstruction /\ arg.model_config # 0 /\ ~BothGiven)
    => /\ Supplied.kind # ExpectedKind
            => \A i \in DOMAIN calls : calls[i].fn # "verify_config"
       /\ \A i \in BuilderCalls :
            /\ \E j \in 1..(i - 1) :
                 calls[j].fn = "verify_config" /\ calls[j].cfg = calls[i].cfg
            /\ heap[calls[i].cfg].verifies
       /\ (Supplied.kind = ExpectedKind /\ ~Supplied.verifies)
            => /\ pc = "failed"
               /\ model = None
               /\ BuilderCalls = {}
               /\ calls = <<VerifyCall(arg.model_config)>>
               /\ err = [type |-> "ValueError", msg |-> "verify_config"]

C3_Witness ==
  /\ pc = "failed"
  /\ arg.model_config # 0
  /\ ~BothGiven
  /\ Supplied.kind = ExpectedKind
  /\ ~Supplied.verifies
  /\ calls = <<VerifyCall(1)>>

AfterLoad == pc \in {"loaded", "load_failed"}
FromConfiguration == arg.model_config # 0 /\ ~BothGiven

(* the exception, if any, that deserializing the embedded model_config of  *)
(* the dictionary handed to from_config raises                             *)
DeserializationRaises ==
  deserialize_keras_object(loadIn.config[1].model_config,
                           _extend_custom_objects(loadIn.custom_objects)).raised

GraphOnly ==
  /\ pc = "loaded"
  /\ model # None
  /\ model[1].model_config = 0
  /\ warnings = <<CouldNotLoad>>

(* C4, as stated: whenever the embedded model_config cannot be             *)
(* deserialized, from_config logs a warning and returns the model          *)
(* reconstructed from the graph alone.                                     *)
C4_AsStated == (AfterLoad /\ DeserializationRaises # "") => GraphOnly

(* C4, amended: a deserialization failure that raises ValueError is        *)
(* caught: a warning is logged and the model reconstructed from the graph  *)
(* alone (model_config None) is returned; a failure that raises any other  *)
(* exception leaves from_config with that exception and no model.          *)
C4_ValueErrorCaught ==
  AfterLoad
    => /\ DeserializationRaises = "ValueError" => GraphOnly
       /\ DeserializationRaises \notin {"", "ValueError"}
            => (pc = "load_failed" /\ model = None /\ err.type = DeserializationRaises)

C4_Witness ==
  /\ GraphOnly
  /\ loadIn.tamper = "unknown_class"
  /\ DeserializationRaises = "ValueError"

(* C5: for a model built from a configuration c, get_config returns the    *)
(* graph configuration with, under model_config, c's class name and c's    *)
(* fields; from_config of that dictionary returns a model whose            *)
(* model_config is a configuration equal to c.                             *)
C5_RoundTrip ==
  FromConfiguration
    => /\ pc = "saved"
            => /\ saved[1].graph = [inputs |-> model[1].inputs,
                                    outputs |-> model[1].outputs,
                                    name |-> model[1].name]
               /\ saved[1].model_config # None
               /\ saved[1].model_config[1].class_name = Supplied.kind
               /\ DOMAIN saved[1].model_config[1].config = ConfigFields
               /\ \A f \in ConfigFields :
                    saved[1].model_config[1].config[f] = Supplied[f]
       /\ (AfterLoad /\ loadIn.tamper = "asis" /\ loadIn.custom_objects = None)
            => /\ pc = "loaded"
               /\ model[1].cls = cls
               /\ model[1].model_config # 0
               /\ heap[model[1].model_config] = Supplied
               /\ warnings = <<>>

C5_Witness ==
  /\ FromConfiguration
  /\ pc = "loaded"
  /\ loadIn.tamper = "asis"
  /\ loadIn.custom_objects = None
  /\ cls = "AggregateFunction"
  /\ model[1].model_config = 3
  /\ heap[3] = Supplied

(* C6: a model built from a configuration has one input per feature        *)
(* config, the i-th being the input layer of the i-th feature config's     *)
(* name, and exactly one output.                                           *)
C6_InputsFollowFeatureConfigs ==
  (pc = "constructed" /\ FromConfiguration)
    => LET m == model[1]
           fcs == Supplied.feature_configs
       IN /\ Len(m.inputs) = Len(fcs)
          /\ \A i \in DOMAIN fcs :
               m.inputs[i].layer = "Input" /\ m.inputs[i].name = fcs[i].name
          /\ Len(m.outputs) = 1

C6_Witness ==
  /\ pc = "constructed"
  /\ FromConfiguration
  /\ Len(Supplied.feature_configs) = 2
  /\ Supplied.feature_configs[1].name = "f2"
  /\ model[1].inputs[1].name = "f2"
  /\ model[1].inputs[2].name = "f1"

(* C7: the additional keyword arguments of the constructor (name) reach    *)
(* the underlying model constructor when the model is built from a         *)
(* configuration.                                                          *)
C7_KwargsForwarded ==
  (pc = "constructed" /\ FromConfiguration) => model[1].name = arg.kwargs.name

(* C8: the supplied configuration keeps every field through construction,  *)
(* get_config and from_config, and the constructed model's model_config is *)
(* that very object.                                                       *)
C8_ConfigUntouched ==
  arg.model_config # 0
    => /\ Len(heap) >= 1
       /\ heap[1] = heap0[1]
       /\ pc \in {"constructed", "saved"}
            => model[1].model_config = arg.model_config

C8_Witness ==
  /\ pc = "saved"
  /\ FromConfiguration
  /\ cls = "AggregateFunction"
  /\ Len(heap) = 2
  /\ heap[2].kind = "CalibratedLatticeConfig"
  /\ heap[1] = heap0[1]

OutputCalibrationCalls ==
  {i \in DOMAIN calls : calls[i].fn = "build_output_calibration_layer"}

(* the builder that is handed the output range, per class *)
RangedBuilder ==
  CASE cls = "CalibratedLinear" -> "build_calibration_layers"
    [] cls = "AggregateFunction" -> "build_aggregation_layer"
    [] OTHER -> "build_lattice_layer"

RangedCalls ==
  {i \in DOMAIN calls : calls[i].fn = RangedBuilder /\ calls[i].cfg = arg.model_config}

FeedLayers ==
  CASE cls = "CalibratedLinear" -> {"Linear"}
    [] cls = "AggregateFunction" -> {"Aggregation"}
    [] cls = "CalibratedLattice" -> {"Lattice"}
    [] OTHER -> {"Lattice", "Average"}

(* C9: the output calibration layer is built exactly when                  *)
(* output_calibration is set; then it is the model output, it is fed by    *)
(* the class's last layer and the class's ranged builder got               *)
(* INPUT_TO_FINAL_CALIBRATION; otherwise the last layer is the model       *)
(* output and the ranged builder got MODEL_OUTPUT.                         *)
C9_OutputShaping ==
  (pc = "constructed" /\ FromConfiguration)
    => LET oc == Supplied.output_calibration
           expected == IF oc THEN "INPUT_TO_FINAL_CALIBRATION" ELSE "MODEL_OUTPUT"
           out == model[1].outputs[1]
           feed == IF oc THEN out.of[1] ELSE out
       IN /\ oc <=> OutputCalibrationCalls # {}
          /\ Cardinality(OutputCalibrationCalls) <= 1
          /\ oc => /\ out.layer = "OutputCalibration"
                   /\ \A i \in OutputCalibrationCalls :
                        /\ calls[i].input = <<feed>>
                        /\ calls[i].cfg = arg.model_config
                        /\ i = Len(calls)
          /\ feed.layer \in FeedLayers
          /\ RangedCalls # {}
          /\ \A i \in RangedCalls : calls[i].range = expected
          /\ cls \in {"CalibratedLattice", "AggregateFunction"} => feed.range = expected
          /\ cls = "CalibratedLinear" => feed.of[1].range = expected
          /\ cls = "CalibratedLatticeEnsemble"
               => \A t \in (IF feed.layer = "Average" THEN Range(feed.of) ELSE {feed}) :
                    t.layer = "Lattice" /\ t.range = expected

C9_Witness ==
  /\ pc = "constructed"
  /\ FromConfiguration
  /\ cls = "CalibratedLinear"
  /\ Supplied.output_calibration
  /\ model[1].outputs[1].layer = "OutputCalibration"
  /\ model[1].outputs[1].of[1].layer = "Linear"

LatticeCalls == SelectSeq(calls, LAMBDA c : c.fn = "build_lattice_layer")
AverageCalls == SelectSeq(calls, LAMBDA c : c.fn = "Average")

(* C10: CalibratedLatticeEnsemble builds one lattice layer per entry of    *)
(* lattices, the k-th with submodel_index k (from 0), the k-th calibrated  *)
(* submodel input and that entry's feature configs in the entry's order;   *)
(* an Average layer combines the lattice outputs exactly when there is     *)
(* more than one lattice, and a single lattice's output is used directly.  *)
C10_EnsembleLattices ==
  (AfterConstruction /\ FromConfiguration /\ cls = "CalibratedLatticeEnsemble"
     /\ Supplied.kind = ExpectedKind /\ Supplied.verifies)
    => LET ls == Supplied.lattices
       IN /\ Len(LatticeCalls) = Len(ls)
          /\ \A k \in DOMAIN ls :
               /\ LatticeCalls[k].idx = k - 1
               /\ LatticeCalls[k].fcs = ls[k]
               /\ Len(LatticeCalls[k].input) = 1
               /\ LatticeCalls[k].input[1].layer = "Calibration"
               /\ LatticeCalls[k].input[1].idx = k - 1
               /\ [i \in DOMAIN LatticeCalls[k].input[1].of |->
                     LatticeCalls[k].input[1].of[i].name] = ls[k]
          /\ Len(AverageCalls) = (IF Len(ls) > 1 THEN 1 ELSE 0)
          /\ pc = "constructed" <=> Len(ls) >= 1
          /\ pc = "constructed"
               => LET out == model[1].outputs[1]
                      feed == IF Supplied.output_calibration THEN out.of[1] ELSE out
                  IN IF Len(ls) > 1
                       THEN /\ feed.layer = "Average"
                            /\ Len(feed.of) = Len(ls)
                            /\ AverageCalls[1].input = feed.of
                            /\ \A k \in DOMAIN ls :
                                 /\ feed.of[k].layer = "Lattice"
                                 /\ feed.of[k].idx = k - 1
                                 /\ feed.of[k].of = LatticeCalls[k].input
                     ELSE /\ feed.layer = "Lattice"
                          /\ feed.idx = 0
                          /\ feed.of = LatticeCalls[1].input

C10_Witness ==
  /\ pc = "constructed"
  /\ FromConfiguration
  /\ cls = "CalibratedLatticeEnsemble"
  /\ Len(Supplied.lattices) = 2
  /\ Supplied.lattices[1] = <<"f2", "f1">>
  /\ Len(LatticeCalls) = 2
  /\ Len(AverageCalls) = 1

InnerCalls == SelectSeq(calls, LAMBDA c : c.cfg = 2)
AggregationCalls == {i \in DOMAIN calls : calls[i].fn = "build_aggregation_layer"}

(* the calls of one CalibratedLattice construction from configuration 2    *)
(* without output calibration                                              *)
InnerConstruction(names) ==
  <<[fn |-> "verify_config", cfg |-> 2, range |-> "", idx |-> -1, fcs |-> <<>>,
     input |-> <<>>],
    [fn |-> "build_input_layer", cfg |-> 2, range |-> "", idx |-> -1, fcs |-> names,
     input |-> <<>>],
    [fn |-> "build_calibration_layers", cfg |-> 2, range |-> "INPUT_TO_LATTICE",
     idx |-> -1, fcs |-> names, input |-> <<>>]>>

(* C11: AggregateFunction derives one CalibratedLatticeConfig (the outer   *)
(* feature_configs and regularizer_configs, output_min -1, output_max 1,   *)
(* output_initialization [-1, 1], no output calibration) and constructs    *)
(* middle_dimension CalibratedLattice models from it, each through         *)
(* verify_config and the lattice builders, all before the aggregation      *)
(* layer is built; when verify_config rejects the derived configuration    *)
(* in such a construction the AggregateFunction construction fails.        *)
C11_InnerLattices ==
  (AfterConstruction /\ FromConfiguration /\ cls = "AggregateFunction"
     /\ Supplied.kind = ExpectedKind /\ Supplied.verifies)
    => LET md == Supplied.middle_dimension
           names == [i \in DOMAIN Supplied.feature_configs |->
                       Supplied.feature_configs[i].name]
       IN /\ Len(heap) = 2
          /\ heap[2].kind = "CalibratedLatticeConfig"
          /\ heap[2].feature_configs = Supplied.feature_configs
          /\ heap[2].regularizer_configs = Supplied.regularizer_configs
          /\ heap[2].output_min = <<-1>>
          /\ heap[2].output_max = <<1>>
          /\ heap[2].output_initialization = <<-1, 1>>
          /\ ~heap[2].output_calibration
          /\ IF md >= 1 /\ ~heap[2].verifies
               THEN /\ pc = "failed"
                    /\ model = None
                    /\ err = [type |-> "ValueError", msg |-> "verify_config"]
                    /\ InnerCalls = <<VerifyCall(2)>>
                    /\ AggregationCalls = {}
               ELSE /\ pc = "constructed"
                    /\ Len(InnerCalls) = 4 * md
                    /\ \A j \in 0..(md - 1) :
                         /\ \A q \in 1..3 : InnerCalls[4 * j + q] = InnerConstruction(names)[q]
                         /\ InnerCalls[4 * j + 4].fn = "build_lattice_layer"
                         /\ InnerCalls[4 * j + 4].range = "MODEL_OUTPUT"
                    /\ Cardinality(AggregationCalls) = 1
                    /\ \A a \in AggregationCalls :
                         \A i \in DOMAIN calls : calls[i].cfg = 2 => i < a
                    /\ LET out == model[1].outputs[1]
                           agg == IF Supplied.output_calibration THEN out.of[1] ELSE out
                       IN /\ Len(agg.of) = Len(names) + md
                          /\ \A i \in (Len(names) + 1)..Len(agg.of) :
                               agg.of[i].layer = "Lattice" /\ agg.of[i].range = "MODEL_OUTPUT"

C11_Witness ==
  /\ pc = "constructed"
  /\ FromConfiguration
  /\ cls = "AggregateFunction"
  /\ Supplied.middle_dimension = 2
  /\ Supplied.regularizer_configs = <<"reg">>
  /\ heap[2].regularizer_configs = <<"reg">>
  /\ Len(InnerCalls) = 8

(* what deserializing the embedded model_config of the dictionary handed   *)
(* to from_config gives                                                    *)
Deserialized ==
  deserialize_keras_object(loadIn.config[1].model_config,
                           _extend_custom_objects(loadIn.custom_objects))

(* C12: a model returned by from_config has a model_config other than None *)
(* only when the embedded configuration deserialized and passed            *)
(* verify_config, and then it is that configuration; in every other        *)
(* returning case model_config is None and the warning was logged. So a    *)
(* returned model never carries a configuration verify_config rejects.     *)
C12_OnlyVerifiedConfigAssigned ==
  pc = "loaded"
    => IF model[1].model_config # 0
         THEN /\ Deserialized.raised = ""
              /\ Deserialized.obj # None
              /\ Deserialized.obj[1].verifies
              /\ heap[model[1].model_config] = Deserialized.obj[1]
              /\ heap[model[1].model_config].verifies
              /\ warnings = <<>>
         ELSE /\ \/ Deserialized.raised = "ValueError"
                 \/ Deserialized.obj = None
                 \/ ~Deserialized.obj[1].verifies
              /\ warnings = <<CouldNotLoad>>

C12_Witness ==
  /\ pc = "loaded"
  /\ BothGiven
  /\ arg.model_config # 0
  /\ ~Supplied.verifies
  /\ loadIn.tamper = "asis"
  /\ Deserialized.raised = ""
  /\ Deserialized.obj # None
  /\ model[1].model_config = 0
  /\ warnings = <<CouldNotLoad>>

====
